---- MODULE Spec2Model ----
(***************************************************************************)
(* Batch key-frame extraction (src/src/main.rs).                           *)
(*                                                                         *)
(* main() collects the eligible video files into video_paths and runs      *)
(* process_video on them with rayon's par_iter().try_for_each on a global  *)
(* pool of `threads` workers.  process_video derives the output directory  *)
(* from the file stem, returns at once if it exists, creates it, spawns    *)
(* ffmpeg and waits for it.                                                *)
(*                                                                         *)
(* Thread 0 is the thread that runs main(); threads 1..threads are the     *)
(* pool's workers.  An input is its position in video_paths, the value at  *)
(* that position is its file stem.                                         *)
(*                                                                         *)
(* Spec, SpecRerun and SpecFair are the batch.  SpecDiscover is the        *)
(* discovery filter on one entry of the input tree and SpecCommand the     *)
(* ffmpeg command of one file; there file names and args.extensions are    *)
(* sequences of characters and a path is the sequence of its components.   *)
(***************************************************************************)
EXTENDS Integers, Sequences, FiniteSets, TLC

\* Bounds of the model.
MaxInputs == 3
MaxThreads == 2
MaxLen == 3

VARIABLES
  video_paths,  \* main.rs:49  the discovered inputs, as the sequence of their stems
  threads,      \* main.rs:22  args.threads, the size of the pool
  rootExists,   \* filesystem: args.output exists
  dirs,         \* filesystem: the stems s for which args.output/s exists
  frames,       \* filesystem: <<s, i>> when ffmpeg wrote the frames of input i into args.output/s
  rerun,        \* this run of the program follows an earlier run on the same roots
  pc,           \* per thread: where it is
  cur,          \* per thread: the piece of video_paths it is working on
  deque,        \* per worker: the pieces it has pushed for later (rayon's join)
  injected,     \* the job main() handed to the pool
  full,         \* try_for_each's shared short-circuit flag
  residual,     \* the error try_for_each's reduction holds (0: none), as the failing input
  result,       \* what main() returned: "none" while running, "Ok" or "Err"
  children,     \* the ffmpeg child processes started and not yet exited, by input
  outcome,      \* per input: what process_video returned in this run ("none": not called or not yet)
  invoked,      \* the inputs for which ffmpeg was spawned in this run
  gateSaw,      \* per input: what output_dir.exists() answered in this run
  touched,      \* <<i, op, s>>: input i's task checked / created / wrote directory s in this run
  firstFail,    \* the input whose process_video was the first in time to return Err in this run (0: none)
  nzPrev,       \* the inputs for which ffmpeg exited non-zero in an earlier run
  startTree,    \* the output tree this run started with
  extensions,   \* main.rs:30  args.extensions, as the sequence of its characters
  quality,      \* main.rs:26  args.quality
  entry,        \* main.rs:49  the entry of the input tree the walk is at
  collected,    \* main.rs:61  the file names collected from the walk
  argv,         \* main.rs:99  the arguments handed to ffmpeg (<< >>: not built yet)
  status,       \* main.rs:98  the exit status .status() returned, << >> before it did
  step          \* where the walk over one entry / the call on one file is

vars == << video_paths, threads, rootExists, dirs, frames, rerun, pc, cur,
           deque, injected, full, residual, result, children, outcome, invoked,
           gateSaw, touched, firstFail, nzPrev, startTree, extensions, quality,
           entry, collected, argv, status, step >>

fsVars == << rootExists, dirs, frames >>
poolVars == << deque, injected >>
cfgVars == << video_paths, threads >>
histVars == << rerun, nzPrev, startTree >>
runVars == << pc, cur, full, residual, result, children, outcome, invoked,
             gateSaw, touched, firstFail >>
batchVars == << cfgVars, fsVars, poolVars, histVars, runVars >>
oneVars == << extensions, quality, entry, collected, argv, status, step >>

----------------------------------------------------------------------------
\* Sets the model draws from.

Stems == 1..MaxInputs
Inputs == 1..Len(video_paths)
Threads == 0..threads
Workers == 1..threads
MainThread == 0

NoJob == [lo |-> 0, hi |-> 0, splits |-> 0, mig |-> FALSE]

Max(a, b) == IF a >= b THEN a ELSE b

Range(s) == { s[k] : k \in DOMAIN s }

\* Stem sequences up to renaming of the stems: the first input has stem 1 and
\* each input either repeats an earlier stem or takes the next unused one.
Canonical(s) ==
  \A k \in DOMAIN s :
    s[k] <= 1 + (IF k = 1 THEN 0
                 ELSE CHOOSE m \in 0..MaxInputs :
                        /\ \A j \in 1..(k-1) : s[j] <= m
                        /\ (m = 0 \/ \E j \in 1..(k-1) : s[j] = m))

StemSeqs ==
  UNION { { s \in [1..len -> Stems] : Canonical(s) } : len \in 0..MaxInputs }

----------------------------------------------------------------------------
\* Text.  A string is the sequence of its characters; the letters are one
\* letter in both cases.

NameChars == { "a", "A", "." }
ExtChars == { "a", "A", ",", " " }

Strings(chars, lo) == UNION { [1..len -> chars] : len \in lo..MaxLen }

\* The names a directory entry can have: not empty, not "." and not "..".
Names == Strings(NameChars, 1) \ { << "." >>, << ".", "." >> }

\* Option::None.
None == "None"

\* A variant of to_lowercase that leaves the letters as they are.
to_lowercase_kept(s) == s

\* str::to_lowercase (36, 56).
to_lowercase(s) == [k \in DOMAIN s |-> IF s[k] = "A" THEN "a" ELSE s[k]]

\* str::trim (36): the string without its leading and trailing spaces.
RECURSIVE trim(_)
trim(s) ==
  IF s # << >> /\ Head(s) = " " THEN trim(Tail(s))
  ELSE IF s # << >> /\ s[Len(s)] = " " THEN trim(SubSeq(s, 1, Len(s) - 1))
  ELSE s

\* str::split (35): the pieces between the separators; a string without
\* separator, the empty one too, is one piece.
RECURSIVE split(_, _)
split(s, sep) ==
  IF \E k \in DOMAIN s : s[k] = sep
    THEN LET k == CHOOSE k \in DOMAIN s : s[k] = sep /\ \A j \in 1..(k-1) : s[j] # sep
         IN << SubSeq(s, 1, k - 1) >> \o split(SubSeq(s, k + 1, Len(s)), sep)
    ELSE << s >>

\* main.rs:34-38
get_video_extensions(exts) ==
  LET pieces == split(exts, ",")
  IN [k \in DOMAIN pieces |-> to_lowercase(trim(pieces[k]))]

\* Path::file_stem and Path::extension cut the file name at its last dot: a
\* name without dot, or whose only dot is its first character, is all stem and
\* has no extension.
LastDot(name) ==
  IF \E k \in DOMAIN name : name[k] = "."
    THEN CHOOSE k \in DOMAIN name : name[k] = "." /\ \A j \in (k+1)..Len(name) : name[j] # "."
    ELSE 0

\* Path::extension (54-55)
extension(name) ==
  IF LastDot(name) <= 1 THEN None ELSE SubSeq(name, LastDot(name) + 1, Len(name))

\* Path::file_stem (78-79)
file_stem(name) ==
  IF LastDot(name) <= 1 THEN name ELSE SubSeq(name, 1, LastDot(name) - 1)

\* 54-57: the extension in lower case, the empty string when there is none.
LoweredExtension(name) ==
  IF extension(name) = None THEN << >> ELSE to_lowercase(extension(name))

\* What an entry of the input tree is: a regular file, a directory, a symbolic
\* link to a regular file, or a symbolic link to nothing.
Kinds == { "file", "dir", "link_file", "link_broken" }

\* Path::is_file (53) asks about what the path resolves to.
is_file(kind) == kind \in { "file", "link_file" }

\* The entries of an input tree.  ok: the walk can read the entry; when it
\* cannot (its directory is not readable) WalkDir yields an Err in its place.
Entries ==
  [ok : {TRUE}, name : Names, kind : Kinds] \cup [ok : {FALSE}, name : Names, kind : {"file"}]

NoEntry == [ok |-> FALSE, name |-> << >>, kind |-> "none"]

\* main.rs:25  default_value_t of args.quality
DefaultQuality == 2

\* 52-59: the closure of .filter() on an entry the walk yielded.
Eligible(e) ==
  is_file(e.kind) /\ \E k \in DOMAIN get_video_extensions(extensions) :
                        get_video_extensions(extensions)[k] = LoweredExtension(e.name)

----------------------------------------------------------------------------
\* process_video's pure parts.

\* u8, the type of args.quality (26): 0..U8Max.
U8Max == 255

Digits == << "0", "1", "2", "3", "4", "5", "6", "7", "8", "9" >>

\* A variant of to_string that brings the value into 1..31 first.
to_string_clamped(n) ==
  LET m == IF n < 1 THEN 1 ELSE IF n > 31 THEN 31 ELSE n
  IN IF m < 10 THEN << Digits[m + 1] >>
               ELSE << Digits[(m \div 10) + 1], Digits[(m % 10) + 1] >>

\* u8::to_string (104): the decimal digits of n, the most significant first.
RECURSIVE to_string(_)
to_string(n) ==
  IF n < 10 THEN << Digits[n + 1] >>
            ELSE to_string(n \div 10) \o << Digits[(n % 10) + 1] >>

\* A path is the sequence of its components.  args.input and args.output are
\* one component each.
InputRoot == "input"
OutputRoot == "output"

\* Path::join (77, 94)
join(path, c) == Append(path, c)

\* 77-83: the output directory of a video file, from the stem of its name.
OutputDirOf(video_path) ==
  join(<< OutputRoot >>, file_stem(video_path[Len(video_path)]))

\* 93-96
output_pattern(video_path) == join(OutputDirOf(video_path), "keyframe_%05d.jpg")

\* A variant of ffmpeg_args with the quality and the thread count exchanged.
ffmpeg_args_exchanged(video_path, q) ==
  << "-hwaccel", "auto", "-i", video_path, "-vf", "select=eq(pict_type\\,I)",
     "-vsync", "vfr", "-threads", "2", "-q:v", to_string(q),
     "-loglevel", "error", output_pattern(video_path) >>

\* 99-108: the arguments of the ffmpeg command.
ffmpeg_args(video_path, q) ==
  << "-hwaccel", "auto", "-i", video_path, "-vf", "select=eq(pict_type\\,I)",
     "-vsync", "vfr", "-q:v", to_string(q), "-threads", "2",
     "-loglevel", "error", output_pattern(video_path) >>

\* A variant of output_dir that forgets to join the stem: every input gets the
\* same directory.
output_dir_unjoined(i) == 1

\* main.rs:77-83  Path::new(output_root).join(video_path.file_stem()): the output
\* directory of input i, named by its stem.
output_dir(i) == video_paths[i]

\* A variant of Exists that tests a path that is never there.
ExistsNever(s) == FALSE

\* main.rs:85  output_dir.exists(): args.output/s is there (and so is args.output).
Exists(s) == rootExists /\ s \in dirs

\* main.rs:109  the exit statuses ffmpeg can end with: 0, or non-zero on an
\* input it cannot decode.
ExitStatuses == {0, 1}

\* main.rs:112  status.success()
StatusSuccess(st) == st = 0

\* What process_video returns: Ok(()) on the skip path (86) and after a decode
\* (116), or one of its errors (90, 101, 110, 113).
Skipped == "Skipped"
Success == "Success"
Failures == { "MkdirError", "SpawnError", "DecoderError" }
IsErr(res) == res \in Failures

\* The inputs for which ffmpeg exited non-zero, in this run or an earlier one.
NzExit == nzPrev \cup { i \in Inputs : outcome[i] = "DecoderError" }

----------------------------------------------------------------------------
\* rayon's par_iter().try_for_each, main.rs:67-70.

\* The splitter of the bridge: a piece of len items is cut in two when each half
\* keeps at least one item and the split budget allows it; a piece that
\* migrated to another thread always may.
TrySplit(len, mig, splits) == (len \div 2 >= 1) /\ (mig \/ splits > 0)

NewSplits(mig, splits) ==
  IF mig THEN Max(threads, splits \div 2) ELSE splits \div 2

\* A variant of TryReduce that keeps the error that came first in time.
TryReduceFirst(acc, i) == IF acc = 0 THEN i ELSE acc

\* try_for_each's reduction of two results: the one of the piece further left
\* wins, so over the whole batch the failing input of least position is kept.
TryReduce(acc, i) == IF acc = 0 \/ i < acc THEN i ELSE acc

\* A variant of MainResult that drops try_for_each's result.
MainResultDropped(r) == "Ok"

\* A variant of MainResult that takes a batch without inputs for an error.
MainResultNoInput(r) == IF r = 0 /\ Len(video_paths) > 0 THEN "Ok" ELSE "Err"

\* The value try_for_each returns and main's `?` / Ok(()) (70-72).
MainResult(r) == IF r = 0 THEN "Ok" ELSE "Err"

\* A variant of Quiescent that never sees the pool at rest: the latch main's
\* thread waits on is never set.
QuiescentNever == FALSE

\* Nothing is left to run: no injected job, no pushed piece, every worker idle.
Quiescent ==
  /\ injected = << >>
  /\ \A w \in Workers : pc[w] = "idle" /\ deque[w] = << >>

\* Workers that are idle with nothing pushed hold no state and are
\* interchangeable: the one of least number is the one that looks for work.
Seeks(w) ==
  /\ pc[w] = "idle"
  /\ deque[w] = << >>
  /\ \A u \in Workers : u < w => ~(pc[u] = "idle" /\ deque[u] = << >>)

\* Where a thread goes when its piece is finished.
Rest(t) == IF t = MainThread THEN "blocked" ELSE "idle"

----------------------------------------------------------------------------
\* The state at the start of a run of the program.

StartRun ==
  /\ pc = [t \in Threads |-> IF t = MainThread THEN "helper" ELSE "idle"]
  /\ cur = [t \in Threads |->
              IF t = MainThread
                THEN [lo |-> 1, hi |-> Len(video_paths) + 1,
                      splits |-> threads, mig |-> FALSE]
                ELSE NoJob]
  /\ deque = [w \in Workers |-> << >>]
  /\ injected = << >>
  /\ full = FALSE
  /\ residual = 0
  /\ result = "none"
  /\ children = {}
  /\ outcome = [i \in Inputs |-> "none"]
  /\ invoked = {}
  /\ gateSaw = [i \in Inputs |-> "none"]
  /\ touched = {}
  /\ firstFail = 0

\* While the batch runs the views of one entry and of one file are at rest.
OneAtRest ==
  /\ extensions = << >>
  /\ quality = DefaultQuality
  /\ entry = NoEntry
  /\ collected = {}
  /\ argv = << >>
  /\ status = << >>
  /\ step = "batch"

Init ==
  /\ video_paths \in StemSeqs
  /\ threads \in 1..MaxThreads
  /\ dirs \in SUBSET Range(video_paths)
  /\ rootExists \in IF dirs = {} THEN BOOLEAN ELSE {TRUE}
  /\ frames = {}
  /\ rerun = FALSE
  /\ nzPrev = {}
  /\ startTree = << rootExists, dirs, frames >>
  /\ StartRun
  /\ OneAtRest

\* No two inputs have the same stem.
DistinctStems == \A i, j \in Inputs : i # j => video_paths[i] # video_paths[j]

\* The first run of a series starts with no output root yet.  The batches of
\* the largest size have distinct stems; colliding stems are in the smaller ones.
InitFresh ==
  /\ Init
  /\ ~rootExists
  /\ Len(video_paths) = MaxInputs => DistinctStems

----------------------------------------------------------------------------
\* try_for_each's bridge: cutting video_paths into pieces and handing them out.

\* The bridge's helper on the piece thread t holds (67): done at once when the
\* short-circuit flag is up; else the piece is cut in two when the splitter
\* allows it, the right half is left for later (or for a thief) and the thread
\* goes on with the left half; else the thread folds the piece input by input.
\* The first cut is made by main's thread, which is outside the pool: it hands
\* both halves to the pool and blocks until they are done.
Helper(t) ==
  /\ pc[t] = "helper"
  /\ LET j == cur[t]
         len == j.hi - j.lo
         mid == j.lo + (len \div 2)
         s == NewSplits(j.mig, j.splits)
     IN IF full
          THEN /\ pc' = [pc EXCEPT ![t] = Rest(t)]
               /\ cur' = [cur EXCEPT ![t] = NoJob]
               /\ UNCHANGED poolVars
          ELSE IF TrySplit(len, j.mig, j.splits)
            THEN IF t = MainThread
                   THEN /\ injected' = << [lo |-> j.lo, mid |-> mid, hi |-> j.hi, splits |-> s] >>
                        /\ pc' = [pc EXCEPT ![t] = "blocked"]
                        /\ cur' = [cur EXCEPT ![t] = NoJob]
                        /\ UNCHANGED deque
                   ELSE /\ deque' = [deque EXCEPT ![t] =
                                       Append(@, [lo |-> mid, hi |-> j.hi, splits |-> s, mig |-> FALSE])]
                        /\ cur' = [cur EXCEPT ![t] = [lo |-> j.lo, hi |-> mid, splits |-> s, mig |-> FALSE]]
                        /\ UNCHANGED << pc, injected >>
            ELSE /\ pc' = [pc EXCEPT ![t] = IF len = 0 THEN Rest(t) ELSE "gate"]
                 /\ cur' = [cur EXCEPT ![t] = IF len = 0 THEN NoJob ELSE j]
                 /\ UNCHANGED poolVars
  /\ UNCHANGED << cfgVars, oneVars, fsVars, full, residual, result, children, outcome,
                  invoked, gateSaw, touched, firstFail, histVars >>

\* An idle worker takes the job main's thread injected: it pushes the right
\* half on its own deque and goes on with the left half.  Both halves count as
\* migrated, since the job came from outside the pool.
TakeInjected(w) ==
  /\ Seeks(w)
  /\ injected # << >>
  /\ LET j == Head(injected)
     IN /\ deque' = [deque EXCEPT ![w] =
                       << [lo |-> j.mid, hi |-> j.hi, splits |-> j.splits, mig |-> TRUE] >>]
        /\ cur' = [cur EXCEPT ![w] = [lo |-> j.lo, hi |-> j.mid, splits |-> j.splits, mig |-> TRUE]]
  /\ injected' = << >>
  /\ pc' = [pc EXCEPT ![w] = "helper"]
  /\ UNCHANGED << cfgVars, oneVars, fsVars, full, residual, result, children, outcome,
                  invoked, gateSaw, touched, firstFail, histVars >>

\* A worker that finished its piece pops the piece it pushed last.
PopLocal(w) ==
  /\ pc[w] = "idle"
  /\ deque[w] # << >>
  /\ LET j == deque[w][Len(deque[w])]
     IN cur' = [cur EXCEPT ![w] = j]
  /\ deque' = [deque EXCEPT ![w] = SubSeq(@, 1, Len(@) - 1)]
  /\ pc' = [pc EXCEPT ![w] = "helper"]
  /\ UNCHANGED << cfgVars, oneVars, fsVars, injected, full, residual, result, children,
                  outcome, invoked, gateSaw, touched, firstFail, histVars >>

\* A variant of Steal that leaves the stolen piece with its owner as well.
StealCopied(w, v) ==
  /\ Seeks(w)
  /\ v # w
  /\ deque[v] # << >>
  /\ cur' = [cur EXCEPT ![w] = [Head(deque[v]) EXCEPT !.mig = TRUE]]
  /\ pc' = [pc EXCEPT ![w] = "helper"]
  /\ UNCHANGED << cfgVars, oneVars, fsVars, poolVars, full, residual, result,
                  children, outcome, invoked, gateSaw, touched, firstFail, histVars >>

\* A worker with nothing of its own steals the oldest piece of another worker.
Steal(w, v) ==
  /\ Seeks(w)
  /\ v # w
  /\ deque[v] # << >>
  /\ cur' = [cur EXCEPT ![w] = [Head(deque[v]) EXCEPT !.mig = TRUE]]
  /\ deque' = [deque EXCEPT ![v] = Tail(@)]
  /\ pc' = [pc EXCEPT ![w] = "helper"]
  /\ UNCHANGED << cfgVars, oneVars, fsVars, injected, full, residual, result, children,
                  outcome, invoked, gateSaw, touched, firstFail, histVars >>

\* process_video(video_paths[i]) has returned res on thread t (68-69): the
\* result enters the reduction, an Err raises the short-circuit flag, and the
\* fold goes on to the next input of the piece unless the flag is up.
Finish(t, i, res) ==
  /\ outcome' = [outcome EXCEPT ![i] = res]
  /\ full' = (full \/ IsErr(res))
  /\ residual' = IF IsErr(res) THEN TryReduce(residual, i) ELSE residual
  /\ firstFail' = IF IsErr(res) /\ firstFail = 0 THEN i ELSE firstFail
  /\ IF full' \/ cur[t].lo + 1 = cur[t].hi
       THEN /\ pc' = [pc EXCEPT ![t] = Rest(t)]
            /\ cur' = [cur EXCEPT ![t] = NoJob]
       ELSE /\ pc' = [pc EXCEPT ![t] = "gate"]
            /\ cur' = [cur EXCEPT ![t].lo = @ + 1]

----------------------------------------------------------------------------
\* process_video, main.rs:75-117, on the input cur[t].lo.

\* A variant of Gate without the early return of line 86.
GateNoReturn(t) ==
  /\ pc[t] = "gate"
  /\ LET i == cur[t].lo
         d == output_dir(i)
     IN /\ touched' = touched \cup { << i, "check", d >> }
        /\ gateSaw' = [gateSaw EXCEPT ![i] = IF Exists(d) THEN "exists" ELSE "absent"]
  /\ pc' = [pc EXCEPT ![t] = "mkdir"]
  /\ UNCHANGED << cfgVars, oneVars, fsVars, poolVars, result, children, invoked, histVars,
                  cur, outcome, full, residual, firstFail >>

\* 77-87: the output directory is derived from the stem; if it exists the call
\* returns Ok(()) at once.
Gate(t) ==
  /\ pc[t] = "gate"
  /\ LET i == cur[t].lo
         d == output_dir(i)
     IN /\ touched' = touched \cup { << i, "check", d >> }
        /\ gateSaw' = [gateSaw EXCEPT ![i] = IF Exists(d) THEN "exists" ELSE "absent"]
        /\ IF Exists(d)
             THEN Finish(t, i, Skipped)
             ELSE /\ pc' = [pc EXCEPT ![t] = "mkdir"]
                  /\ UNCHANGED << cur, outcome, full, residual, firstFail >>
  /\ UNCHANGED << cfgVars, oneVars, fsVars, poolVars, result, children, invoked,
                  histVars >>

\* A variant of MkdirOk that goes on to the command without creating the
\* directory.
MkdirOmitted(t) ==
  /\ pc[t] = "mkdir"
  /\ pc' = [pc EXCEPT ![t] = "spawn"]
  /\ UNCHANGED << cfgVars, oneVars, fsVars, cur, poolVars, full, residual, result,
                  children, outcome, invoked, gateSaw, touched, firstFail, histVars >>

\* 89-90: create_dir_all(output_dir) creates the directory and its missing
\* parents, and succeeds when they are already there.
MkdirOk(t) ==
  /\ pc[t] = "mkdir"
  /\ LET i == cur[t].lo
         d == output_dir(i)
     IN /\ rootExists' = TRUE
        /\ dirs' = dirs \cup {d}
        /\ touched' = touched \cup { << i, "create", d >> }
  /\ pc' = [pc EXCEPT ![t] = "spawn"]
  /\ UNCHANGED << cfgVars, oneVars, frames, cur, poolVars, full, residual, result, children,
                  outcome, invoked, gateSaw, firstFail, histVars >>

\* 89-90: create_dir_all fails (permissions, disk full): the call returns the
\* error.  The parent may or may not have been created by then.
MkdirFail(t) ==
  /\ pc[t] = "mkdir"
  /\ \E r \in {rootExists, TRUE} : rootExists' = r
  /\ Finish(t, cur[t].lo, "MkdirError")
  /\ UNCHANGED << cfgVars, oneVars, dirs, frames, poolVars, result, children, invoked,
                  gateSaw, touched, histVars >>

\* A variant of SpawnOk that starts the child and does not wait for it
\* (.spawn() for .status()): the call returns Ok(()) while the child runs.
SpawnNoWait(t) ==
  /\ pc[t] = "spawn"
  /\ LET i == cur[t].lo
     IN /\ children' = children \cup {i}
        /\ invoked' = invoked \cup {i}
        /\ Finish(t, i, Success)
  /\ UNCHANGED << cfgVars, oneVars, fsVars, poolVars, result, gateSaw, touched, histVars >>

\* 93-110: the ffmpeg command is built and spawned; the child runs.
SpawnOk(t) ==
  /\ pc[t] = "spawn"
  /\ LET i == cur[t].lo
     IN /\ children' = children \cup {i}
        /\ invoked' = invoked \cup {i}
  /\ pc' = [pc EXCEPT ![t] = "wait"]
  /\ UNCHANGED << cfgVars, oneVars, fsVars, cur, poolVars, full, residual, result, outcome,
                  gateSaw, touched, firstFail, histVars >>

\* 101, 110: the command cannot be built (the path is not valid UTF-8) or
\* ffmpeg cannot be spawned: the call returns the error and leaves the
\* directory it created.
SpawnFail(t) ==
  /\ pc[t] = "spawn"
  /\ Finish(t, cur[t].lo, "SpawnError")
  /\ UNCHANGED << cfgVars, oneVars, fsVars, poolVars, result, children, invoked,
                  gateSaw, touched, histVars >>

\* A variant of DirsAfterExit that removes the directory of a failed decode.
DirsRolledBack(d, st) == IF StatusSuccess(st) THEN dirs ELSE dirs \ {d}

\* 112-116: the output directories after ffmpeg exited with status st on the
\* directory d: nothing is removed, whatever the status.
DirsAfterExit(d, st) == dirs

\* 109-116: the child exits; .status() returns its exit status.  A zero status
\* gives Ok(()), any other the bail! of 113.
Exit(t) ==
  /\ pc[t] = "wait"
  /\ \E st \in ExitStatuses :
       LET i == cur[t].lo
           d == output_dir(i)
       IN /\ children' = children \ {i}
          /\ dirs' = DirsAfterExit(d, st)
          /\ frames' = IF StatusSuccess(st) THEN frames \cup { << d, i >> } ELSE frames
          /\ touched' = touched \cup { << i, "write", d >> }
          /\ Finish(t, i, IF StatusSuccess(st) THEN Success ELSE "DecoderError")
  /\ UNCHANGED << cfgVars, oneVars, rootExists, poolVars, result, invoked,
                  gateSaw, histVars >>

----------------------------------------------------------------------------
\* main, after the dispatch.

\* 70-72: try_for_each returns when every piece is done; `?` turns its Err
\* into main's error, else main returns Ok(()).
Return ==
  /\ pc[MainThread] = "blocked"
  /\ Quiescent
  /\ pc' = [pc EXCEPT ![MainThread] = "done"]
  /\ result' = MainResult(residual)
  /\ UNCHANGED << cfgVars, oneVars, fsVars, cur, poolVars, full, residual, children, outcome,
                  invoked, gateSaw, touched, firstFail, histVars >>

\* The program is run again with the same arguments on the same input tree;
\* the output tree is what the run before left.
Rerun ==
  /\ pc[MainThread] = "done"
  /\ rerun' = TRUE
  /\ nzPrev' = NzExit
  /\ startTree' = << rootExists, dirs, frames >>
  /\ pc' = [t \in Threads |-> IF t = MainThread THEN "helper" ELSE "idle"]
  /\ cur' = [t \in Threads |->
               IF t = MainThread
                 THEN [lo |-> 1, hi |-> Len(video_paths) + 1,
                       splits |-> threads, mig |-> FALSE]
                 ELSE NoJob]
  /\ deque' = [w \in Workers |-> << >>]
  /\ injected' = << >>
  /\ full' = FALSE
  /\ residual' = 0
  /\ result' = "none"
  /\ children' = {}
  /\ outcome' = [i \in Inputs |-> "none"]
  /\ invoked' = {}
  /\ gateSaw' = [i \in Inputs |-> "none"]
  /\ touched' = {}
  /\ firstFail' = 0
  /\ UNCHANGED << cfgVars, oneVars, fsVars >>

Run ==
  \/ \E t \in Threads : Helper(t)
  \/ \E w \in Workers : TakeInjected(w)
  \/ \E w \in Workers : PopLocal(w)
  \/ \E w, v \in Workers : Steal(w, v)
  \/ \E t \in Threads : Gate(t)
  \/ \E t \in Threads : MkdirOk(t)
  \/ \E t \in Threads : MkdirFail(t)
  \/ \E t \in Threads : SpawnOk(t)
  \/ \E t \in Threads : SpawnFail(t)
  \/ \E t \in Threads : Exit(t)
  \/ Return

Next ==
  \/ Run
  \/ Rerun

\* One run of the program, from any output tree.
Spec == Init /\ [][Run]_vars

\* Runs of the program one after the other on the same roots.
SpecRerun == InitFresh /\ [][Next]_vars

\* The steps of a run that are the program's own: all but the exit of an
\* ffmpeg child, which is ffmpeg's.
Scheduled ==
  \/ \E t \in Threads : Helper(t)
  \/ \E w \in Workers : TakeInjected(w)
  \/ \E w \in Workers : PopLocal(w)
  \/ \E w, v \in Workers : Steal(w, v)
  \/ \E t \in Threads : Gate(t)
  \/ \E t \in Threads : MkdirOk(t) \/ MkdirFail(t)
  \/ \E t \in Threads : SpawnOk(t) \/ SpawnFail(t)
  \/ Return

\* Any output tree; the batches of the largest size have distinct stems.
InitFair ==
  /\ Init
  /\ Len(video_paths) = MaxInputs => DistinctStems

\* One run under a fair scheduler: a thread that can take a step of the
\* program is not held back for ever.  Nothing is assumed of ffmpeg: a child
\* may run for ever.
SpecFair == InitFair /\ [][Run]_vars /\ WF_vars(Scheduled)

----------------------------------------------------------------------------
\* Discovery, main.rs:49-62, seen on one entry of the input tree.  The closure
\* of .filter() reads the entry and args.extensions only, so what is collected
\* from a tree is what is collected from each of its entries.

\* Before the batch: nothing discovered, no output tree, nothing dispatched.
NoBatch ==
  /\ video_paths = << >>
  /\ threads = 1
  /\ rootExists = FALSE
  /\ dirs = {}
  /\ frames = {}
  /\ rerun = FALSE
  /\ nzPrev = {}
  /\ startTree = << rootExists, dirs, frames >>
  /\ StartRun

InitDiscover ==
  /\ NoBatch
  /\ extensions \in Strings(ExtChars, 0)
  /\ entry \in Entries
  /\ quality = DefaultQuality
  /\ collected = {}
  /\ argv = << >>
  /\ status = << >>
  /\ step = "walk"

\* 49-51: the walk comes to the entry; .filter_map(|e| e.ok()) drops the Err
\* WalkDir yields for an entry it cannot read.
Walk ==
  /\ step = "walk"
  /\ step' = IF entry.ok THEN "filter" ELSE "end"
  /\ UNCHANGED << batchVars, extensions, quality, entry, collected, argv, status >>

\* 52-62: .filter() keeps the entry or not, .map() takes its path, .collect()
\* adds it to video_paths.
Filter ==
  /\ step = "filter"
  /\ collected' = IF Eligible(entry) THEN collected \cup { entry.name } ELSE collected
  /\ step' = "end"
  /\ UNCHANGED << batchVars, extensions, quality, entry, argv, status >>

Discover ==
  \/ Walk
  \/ Filter

\* The discovery of one entry, for every entry and every args.extensions.
SpecDiscover == InitDiscover /\ [][Discover]_vars

----------------------------------------------------------------------------
\* process_video's command, main.rs:93-114, seen on one discovered file that
\* got past the gate: what ffmpeg is handed for every file name and every
\* args.quality, and what process_video makes of ffmpeg's exit status.

InitCommand ==
  /\ NoBatch
  /\ extensions = << >>
  /\ entry \in [ok : {TRUE}, name : Names, kind : {"file"}]
  /\ quality \in 0..U8Max
  /\ collected = { entry.name }
  /\ argv = << >>
  /\ status = << >>
  /\ step = "command"

\* 93-110: the pattern and the command are built and ffmpeg is spawned.
\* Nothing on the way looks at the value of quality.
Command ==
  /\ step = "command"
  /\ argv' = ffmpeg_args(<< InputRoot, entry.name >>, quality)
  /\ step' = "wait"
  /\ UNCHANGED << batchVars, extensions, quality, entry, collected, status >>

\* 110: ffmpeg cannot be spawned: the call returns the error, whatever the
\* arguments were to be.
CommandFail ==
  /\ step = "command"
  /\ step' = "failed"
  /\ UNCHANGED << batchVars, extensions, quality, entry, collected, argv, status >>

\* 109-116: ffmpeg exits; a zero status gives Ok(()), any other the bail! of 113.
Wait ==
  /\ step = "wait"
  /\ \E st \in ExitStatuses :
       /\ status' = << st >>
       /\ step' = IF StatusSuccess(st) THEN "ok" ELSE "failed"
  /\ UNCHANGED << batchVars, extensions, quality, entry, collected, argv >>

CommandNext ==
  \/ Command
  \/ CommandFail
  \/ Wait

\* The command of one file, for every file name and every args.quality.
SpecCommand == InitCommand /\ [][CommandNext]_vars

----------------------------------------------------------------------------
\* Notions the properties below are stated in.

\* main has returned to its caller.
Returned == pc[MainThread] = "done"

\* The inputs whose process_video returned an error in this run.
Failed == { i \in Inputs : IsErr(outcome[i]) }

\* The inputs on which process_video was called in this run.
Started == { i \in Inputs : gateSaw[i] # "none" }

\* The run started with the output directory of every input in place.
StartDone == startTree[1] /\ \A i \in Inputs : video_paths[i] \in startTree[2]

----------------------------------------------------------------------------
\* C1 (isolation), as claimed, in the case the claim names (the stems are
\* distinct and the one failure is a non-zero exit of the decoder): when the run
\* returns and exactly one input's extraction failed, every other input was
\* processed to a successful outcome and its output directory exists.
C1_Isolation ==
  (/\ Returned
   /\ DistinctStems
   /\ Cardinality(Failed) = 1
   /\ \A i \in Failed : outcome[i] = "DecoderError") =>
    \A i \in Inputs \ Failed :
      outcome[i] \in {Success, Skipped} /\ Exists(video_paths[i])

----------------------------------------------------------------------------
\* C2 (concurrency bound): in every reachable state the number of ffmpeg child
\* processes started and not yet exited is at most the configured number of
\* threads.
C2_ConcurrencyBound == Cardinality(children) <= threads

\* As many children as the pool has threads run at once, with two threads.
C2_Witness == threads = 2 /\ Cardinality(children) = threads

----------------------------------------------------------------------------
\* C3 (idempotence), as claimed: in a run that follows an earlier run, whatever
\* the earlier run's outcome, ffmpeg is never invoked, no task does anything but
\* skip, and the output tree stays what the earlier run left.
C3_Original ==
  rerun =>
    /\ invoked = {}
    /\ \A i \in Inputs : outcome[i] \in {"none", Skipped}
    /\ << rootExists, dirs, frames >> = startTree

\* C3, amended: in a run that follows an earlier run which left an output
\* directory for every input, ffmpeg is never invoked, every task is a skip
\* (all of them when the run returns, which it does with Ok), and the output
\* tree stays what the earlier run left.
C3_Idempotence ==
  (rerun /\ StartDone) =>
    /\ invoked = {}
    /\ \A i \in Inputs : outcome[i] \in {"none", Skipped}
    /\ << rootExists, dirs, frames >> = startTree
    /\ Returned => (result = "Ok" /\ \A i \in Inputs : outcome[i] = Skipped)

\* A second run over three inputs, all with an output directory, one of them
\* left by a failed decode, has returned.
C3_Witness ==
  /\ rerun /\ StartDone /\ Returned
  /\ Len(video_paths) = 3
  /\ nzPrev # {}
  /\ \A i \in Inputs : outcome[i] = Skipped

----------------------------------------------------------------------------
\* C4 (completion barrier), as claimed: when main has returned, every input has
\* an outcome and no extraction is in progress.
C4_Barrier ==
  Returned =>
    /\ \A i \in Inputs : outcome[i] # "none"
    /\ children = {}
    /\ \A t \in Threads : pc[t] \in {"idle", "done"}

----------------------------------------------------------------------------
\* C5 (stem collision), as claimed: of two distinct inputs with the same stem,
\* ffmpeg is invoked for at most one in a run.
C5_Collision ==
  \A i, j \in Inputs :
    (i # j /\ video_paths[i] = video_paths[j]) => ~(i \in invoked /\ j \in invoked)

----------------------------------------------------------------------------
\* C6 (overall result): when main has returned, it returned an error if and
\* only if some task's extraction failed; with every task a success or a skip
\* it returned Ok.
C6_Result ==
  Returned =>
    /\ (result = "Err") <=> (Failed # {})
    /\ (\A i \in Started : outcome[i] \in {Success, Skipped}) => result = "Ok"

\* A run has returned an error with one task failed and another succeeded.
C6_Witness ==
  /\ Returned /\ result = "Err"
  /\ \E i, j \in Inputs : IsErr(outcome[i]) /\ outcome[j] = Success

----------------------------------------------------------------------------
----------------------------------------------------------------------------
\* C8 (no rollback): the output directory of an input on which ffmpeg exited
\* non-zero stays on disk; in every later run that input passes for done: its
\* gate finds the directory, ffmpeg is not invoked for it and its task reports
\* no failure.
C8_NoRollback ==
  /\ \A i \in NzExit : Exists(video_paths[i])
  /\ \A i \in nzPrev :
       /\ i \notin invoked
       /\ ~IsErr(outcome[i])
       /\ gateSaw[i] \in {"none", "exists"}

\* In a later run the input of a failed decode has been skipped.
C8_Witness ==
  rerun /\ \E i \in nzPrev : outcome[i] = Skipped /\ << video_paths[i], i >> \notin frames

----------------------------------------------------------------------------
\* C9 (skip path): a task whose gate found the output directory returns Ok
\* as a skip and has done nothing else: it created no directory, no ffmpeg was
\* spawned for it and it wrote nothing.
C9_SkipPath ==
  \A i \in Inputs :
    gateSaw[i] = "exists" =>
      /\ outcome[i] = Skipped
      /\ i \notin invoked
      /\ i \notin children
      /\ \A e \in touched : e[1] = i => e[2] = "check"

\* A task has skipped an input while another task decodes.
C9_Witness ==
  \E i \in Inputs : gateSaw[i] = "exists" /\ outcome[i] = Skipped /\ children # {}

----------------------------------------------------------------------------
----------------------------------------------------------------------------
\* Two strings are the same up to the case of their letters.
EqIgnoreCase(a, b) ==
  /\ Len(a) = Len(b)
  /\ \A k \in DOMAIN a : a[k] = b[k] \/ {a[k], b[k]} = {"a", "A"}

\* The entry is a file whose extension (the empty string when the name has
\* none) is in the allow-list args.extensions stands for, up to case.
Matches(e) ==
  /\ is_file(e.kind)
  /\ \E x \in Range(get_video_extensions(extensions)) :
       EqIgnoreCase(x, IF extension(e.name) = None THEN << >> ELSE extension(e.name))

\* C11 (discovery filter), as claimed, for the entries whose name has an
\* extension: for every input tree and allow-list, an entry of the tree is
\* discovered exactly when it is a regular file whose extension matches the
\* allow-list up to case.
C11_Original ==
  (step = "end" /\ extension(entry.name) # None) =>
    (collected = IF Matches(entry) THEN { entry.name } ELSE {})

\* C11 (discovery filter), amended: an entry of the tree is discovered exactly
\* when the walk can read it and it is a regular file whose extension matches
\* the allow-list up to case; no directory and no file with another extension
\* is discovered.
C11_Discovery ==
  step = "end" =>
    (collected = IF entry.ok /\ Matches(entry) THEN { entry.name } ELSE {})

\* A file whose extension is in upper case was discovered against an
\* allow-list in lower case.
C11_Witness ==
  /\ step = "end"
  /\ collected = { << "a", ".", "A" >> }
  /\ extensions = << "a" >>

----------------------------------------------------------------------------
\* The number a string of decimal digits stands for.
RECURSIVE DecimalValue(_)
DecimalValue(d) ==
  IF d = << >> THEN 0
  ELSE 10 * DecimalValue(SubSeq(d, 1, Len(d) - 1))
         + (CHOOSE v \in 0..9 : Digits[v + 1] = d[Len(d)])

\* The decimal string of n: digits only, no leading zero, of value n.
IsDecimalOf(d, n) ==
  /\ d # << >>
  /\ \A k \in DOMAIN d : \E v \in 0..9 : Digits[v + 1] = d[k]
  /\ Len(d) > 1 => d[1] # "0"
  /\ DecimalValue(d) = n

\* The stem of a file name: the name without its last dot and what follows it,
\* when something precedes that dot; else the whole name.
IsStemOf(s, name) ==
  IF \E k \in 2..Len(name) : name[k] = "."
    THEN /\ s # << >>
         /\ Len(s) < Len(name)
         /\ name[Len(s) + 1] = "."
         /\ \A k \in DOMAIN s : s[k] = name[k]
         /\ \A k \in (Len(s) + 2)..Len(name) : name[k] # "."
    ELSE s = name

\* ffmpeg has been handed its arguments.
Commanded == argv # << >>

\* C12 (argument contract): for every input path with stem s and every quality
\* q, ffmpeg is handed exactly fifteen arguments in this order: -hwaccel auto,
\* -i and the input path, -vf and the key-frame select filter, -vsync vfr,
\* -q:v and the decimal string of q, -threads 2, -loglevel error, and last the
\* pattern outputRoot/s/keyframe_%05d.jpg.
C12_Arguments ==
  Commanded =>
    /\ Len(argv) = 15
    /\ << argv[1], argv[2], argv[3] >> = << "-hwaccel", "auto", "-i" >>
    /\ argv[4] = << InputRoot, entry.name >>
    /\ << argv[5], argv[6] >> = << "-vf", "select=eq(pict_type\\,I)" >>
    /\ << argv[7], argv[8], argv[9] >> = << "-vsync", "vfr", "-q:v" >>
    /\ IsDecimalOf(argv[10], quality)
    /\ << argv[11], argv[12] >> = << "-threads", "2" >>
    /\ << argv[13], argv[14] >> = << "-loglevel", "error" >>
    /\ Len(argv[15]) = 3
    /\ argv[15][1] = OutputRoot
    /\ IsStemOf(argv[15][2], entry.name)
    /\ argv[15][3] = "keyframe_%05d.jpg"

\* The claim's example: quality 5 and a name of stem "a" with an extension
\* give the quality value "5" and the pattern output/a/keyframe_%05d.jpg.
C12_Witness ==
  /\ Commanded
  /\ quality = 5
  /\ entry.name = << "a", ".", "A" >>
  /\ argv[10] = << "5" >>
  /\ argv[15] = << OutputRoot, << "a" >>, "keyframe_%05d.jpg" >>

----------------------------------------------------------------------------
\* C13 (empty batch): when no file was discovered, process_video is called on
\* nothing and nothing is handed to the pool, ffmpeg is never invoked, the
\* output tree stays what it was (no directory is created), and when main
\* returns it returns Ok (exit status 0).
C13_EmptyBatch ==
  Len(video_paths) = 0 =>
    /\ Started = {}
    /\ injected = << >>
    /\ \A w \in Workers : pc[w] = "idle" /\ deque[w] = << >>
    /\ invoked = {} /\ children = {}
    /\ touched = {}
    /\ << rootExists, dirs, frames >> = startTree
    /\ result \in { "none", "Ok" }
    /\ Returned => result = "Ok"

\* A run on an empty batch has returned.
C13_Witness ==
  /\ Len(video_paths) = 0
  /\ Returned
  /\ result = "Ok"
  /\ ~rootExists

----------------------------------------------------------------------------
\* Input i's task has made step op on its output directory.
Did(i, op) == << i, op, output_dir(i) >> \in touched

\* C14 (extractor step order): within one call of process_video the output
\* directory is derived from the stem, then checked, then created, then ffmpeg
\* is invoked: a task creates only after its check found nothing, ffmpeg is
\* invoked only after the task created the directory and only in a state where
\* the directory exists, and a task whose create_dir_all failed ends with that
\* error and never invokes ffmpeg.
C14_StepOrder ==
  /\ \A x \in touched : x[3] = output_dir(x[1])
  /\ \A i \in Inputs :
       /\ Did(i, "create") => (Did(i, "check") /\ gateSaw[i] = "absent")
       /\ i \in invoked => (Did(i, "create") /\ Exists(output_dir(i)))
       /\ Did(i, "write") => i \in invoked
       /\ outcome[i] = "MkdirError" =>
            (Did(i, "check") /\ ~Did(i, "create") /\ i \notin invoked)
  /\ \A t \in Threads :
       /\ pc[t] = "mkdir" => (Did(cur[t].lo, "check") /\ ~Did(cur[t].lo, "create"))
       /\ pc[t] = "spawn" => (Did(cur[t].lo, "create") /\ Exists(output_dir(cur[t].lo)))
       /\ pc[t] = "wait" => cur[t].lo \in children

\* One task invoked ffmpeg in the directory it created, another ended with
\* the directory-creation error.
C14_Witness ==
  /\ Returned
  /\ \E i \in Inputs : i \in invoked /\ Did(i, "write")
  /\ \E i \in Inputs : outcome[i] = "MkdirError"

----------------------------------------------------------------------------
\* C15 (quality pass-through): process_video rejects no quality value: for
\* every value of args.quality, those outside 1..31 too, the command step can
\* be taken, ffmpeg is handed the decimal string of that very value, and once
\* ffmpeg runs the call fails exactly when ffmpeg exits non-zero.
C15_PassThrough ==
  /\ step = "command" => ENABLED Command
  /\ Commanded => IsDecimalOf(argv[10], quality)
  /\ step = "wait" => Commanded
  /\ (Commanded /\ step = "failed") => (status # << >> /\ ~StatusSuccess(status[1]))
  /\ step = "ok" => (Commanded /\ status # << >> /\ StatusSuccess(status[1]))

\* ffmpeg was handed a quality value above 31 as it is and succeeded.
C15_Witness ==
  /\ quality = U8Max
  /\ step = "ok"
  /\ argv[10] = << "2", "5", "5" >>

----------------------------------------------------------------------------
\* The threads that are inside a call of process_video.
InCall == { t \in Threads : pc[t] \in { "gate", "mkdir", "spawn", "wait" } }

\* C16 (at most one invocation per input): within one run, for every number
\* of workers and every interleaving, process_video is called at most once on
\* an input (a thread entering the call finds the input untouched, and no two
\* threads are in the call on the same input), so ffmpeg is invoked at most
\* once for it; and ffmpeg is never invoked for an input whose output
\* directory was there when its gate check was made.
C16_AtMostOnce ==
  /\ \A i \in invoked : gateSaw[i] = "absent"
  /\ \A i \in Inputs : gateSaw[i] = "exists" => (i \notin invoked /\ ~Did(i, "create"))
  /\ \A t \in InCall :
       /\ outcome[cur[t].lo] = "none"
       /\ pc[t] = "gate" => (gateSaw[cur[t].lo] = "none" /\ ~Did(cur[t].lo, "check"))
       /\ pc[t] \in { "gate", "mkdir", "spawn" } => cur[t].lo \notin invoked
       /\ pc[t] = "wait" => cur[t].lo \in children
  /\ \A t, u \in InCall : t # u => cur[t].lo # cur[u].lo
  /\ children \subseteq { cur[t].lo : t \in InCall }

\* With the largest pool, ffmpeg ran for one input and another input was
\* skipped at its gate.
C16_Witness ==
  /\ Returned
  /\ threads = MaxThreads
  /\ \E i, j \in Inputs : /\ i \in invoked
                          /\ gateSaw[j] = "exists"
                          /\ outcome[j] = Skipped

----------------------------------------------------------------------------
\* C17 (termination): for every batch and every number of workers, under fair
\* scheduling a run in which the ffmpeg children keep exiting (no child runs
\* for ever) returns to its caller; put the other way, a run that never
\* returns has an ffmpeg child that never exits.
C17_Termination == ([]<>(children = {})) => <>Returned

\* With the largest pool, a run that spawned ffmpeg for every input of the
\* largest batch has returned.
C17_Witness ==
  /\ Returned
  /\ threads = MaxThreads
  /\ Len(video_paths) = MaxInputs
  /\ invoked = Inputs
  /\ children = {}

----------------------------------------------------------------------------
\* The run with one worker, from input i on: the inputs are taken in the
\* order of video_paths; an input whose directory is there is skipped; else
\* the directory is created and ffmpeg is invoked and succeeds, unless the
\* input is one of bad (its path cannot be handed to ffmpeg, 101), where the
\* call fails and try_for_each stops.  st: the output tree and the inputs
\* ffmpeg was invoked for so far.
RECURSIVE OneWorker(_, _, _)
OneWorker(i, st, bad) ==
  IF i > Len(video_paths) THEN st
  ELSE LET d == output_dir(i)
           made == [st EXCEPT !.root = TRUE, !.dirs = @ \cup {d}]
       IN IF st.root /\ d \in st.dirs THEN OneWorker(i + 1, st, bad)
          ELSE IF i \in bad THEN made
          ELSE OneWorker(i + 1, [made EXCEPT !.invoked = @ \cup {i}], bad)

\* What the run with one worker gives from the tree this run started with,
\* when the inputs that failed in this run are those that cannot be handed to
\* ffmpeg.
OneWorkerRun ==
  OneWorker(1, [root |-> startTree[1], dirs |-> startTree[2], invoked |-> {}],
            { i \in Inputs : outcome[i] = "SpawnError" })

\* ffmpeg succeeded on every input it ran on and every create_dir_all succeeded.
DecoderSucceeds ==
  \A i \in Inputs : outcome[i] \notin { "DecoderError", "MkdirError" }

\* C18 (schedule independence), as claimed: for pairwise distinct stems, a
\* fixed initial output tree and a decoder that succeeds on every input, the
\* inputs ffmpeg was invoked for and the output directories existing when the
\* run returns are those of the run with one worker, for every number of
\* workers and every interleaving.
C18_ScheduleIndependence ==
  (Returned /\ DistinctStems /\ DecoderSucceeds) =>
    (invoked = OneWorkerRun.invoked /\ dirs = OneWorkerRun.dirs)

\* C18 holds for the runs in which no call of process_video fails.
C18_WithoutFailure ==
  (Returned /\ DistinctStems /\ Failed = {}) =>
    (invoked = OneWorkerRun.invoked /\ dirs = OneWorkerRun.dirs)

\* C18 holds for the runs with one worker: OneWorkerRun is what they give.
C18_OneWorker ==
  (Returned /\ DistinctStems /\ DecoderSucceeds /\ threads = 1) =>
    (invoked = OneWorkerRun.invoked /\ dirs = OneWorkerRun.dirs)

====
